---------------------------- MODULE Spec2Model ----------------------------
(***************************************************************************)
(* typesafe-di: the runtime of Design (design.ts), the graph resolver and  *)
(* the dependency DAG (resolver.ts).                                       *)
(*                                                                         *)
(* JavaScript runs to completion: a synchronous segment is never           *)
(* interleaved.  `stack` holds the producers that are executing            *)
(* synchronously (a producer started by an injector read runs nested in    *)
(* its reader); only the top of the stack steps, and promise reactions     *)
(* (a resumed await, the container's .then, Promise.all) run only when the *)
(* stack is empty.  Producers and finalizers are user code: what a         *)
(* producer does next (read a key, suspend, return, throw, catch) is       *)
(* chosen nondeterministically, within the bounds below.                   *)
(*                                                                         *)
(* Maps and Sets of the source iterate in insertion order, so they are     *)
(* sequences without duplicates here.  Keys are not integer-like strings   *)
(* (those would be enumerated first by the engine).                        *)
(***************************************************************************)
EXTENDS Naturals, Sequences, FiniteSets, TLC

\* ------------------------------------------------------------- bounds
\* external suspensions (awaits of something that is not an injected key)
\* one producer performs
MaxDelays == 1
\* finalize calls made after the first one on one result
MaxLaterCalls == 1

\* The inputs explored.  A blueprint is the keys bound, in bind order; for
\* each, the producer passed to bind, described by the injector keys its
\* body may read (it reads any of them, in any order, each at most once),
\* and whether a finalizer of its own is passed; and the keys of the
\* requirements passed to Design.resolve.
Inputs ==
    { [bound |-> <<>>, reads |-> <<>>, finalizers |-> <<>>,
       requirements |-> <<>>],
      [bound |-> <<"self">>, reads |-> <<{"self"}>>, finalizers |-> <<FALSE>>,
       requirements |-> <<>>],
      [bound |-> <<"self", "other">>, reads |-> <<{"self"}, {"self"}>>,
       finalizers |-> <<FALSE, FALSE>>, requirements |-> <<>>],
      [bound |-> <<"db", "repository">>, reads |-> <<{}, {"db"}>>,
       finalizers |-> <<TRUE, TRUE>>, requirements |-> <<>>],
      [bound |-> <<"db", "repository">>, reads |-> <<{}, {"db"}>>,
       finalizers |-> <<TRUE, TRUE>>, requirements |-> <<"db">>],
      [bound |-> <<"service">>, reads |-> <<{"config"}>>,
       finalizers |-> <<FALSE>>, requirements |-> <<"config">>],
      [bound |-> <<"client">>, reads |-> <<{"endpoint"}>>,
       finalizers |-> <<TRUE>>, requirements |-> <<>>],
      [bound |-> <<"key1", "key2">>, reads |-> <<{"key2"}, {"key1"}>>,
       finalizers |-> <<TRUE, FALSE>>, requirements |-> <<>>],
      [bound |-> <<"key1", "key2">>, reads |-> <<{"base"}, {"base", "key1"}>>,
       finalizers |-> <<TRUE, FALSE>>, requirements |-> <<"base">>],
      [bound |-> <<"key1", "key2", "key3">>,
       reads |-> <<{}, {"key1"}, {"key1", "key2"}>>,
       finalizers |-> <<TRUE, TRUE, TRUE>>, requirements |-> <<>>] }

Range(s) == { s[i] : i \in DOMAIN s }

\* ------------------------------------------------------------- values
NoValue == [src |-> "none", key |-> "", n |-> 0]
\* the object the n-th invocation of key's producer returns
Produced(key, n) == [src |-> "produced", key |-> key, n |-> n]
\* the literal mapping[key] of Design.pure
Literal(key) == [src |-> "literal", key |-> key, n |-> 0]

\* An error object: its message; whether it carries __root_error__, and
\* then the key and the invocation whose .catch handler created it (its
\* identity); and, beside the message, what the message was built from:
\* the kind of the original error and the cycle path it reports.
NoError ==
    [root |-> FALSE, origin |-> "", n |-> 0, message |-> "",
     cause |-> "none", path |-> <<>>]
\* new Error(message)
NewError(cause, message, path) ==
    [root |-> FALSE, origin |-> "", n |-> 0, message |-> message,
     cause |-> cause, path |-> path]
\* what unbounded recursion throws (the engine's RangeError)
StackOverflow == NewError("range", "Maximum call stack size exceeded", <<>>)
\* what a producer's own body throws
OwnError == NewError("own", "boom", <<>>)

\* ---------------------------------------------------------------- DAG
\* Set.add: no duplicate
SetAdd(s, x) == IF x \in Range(s) THEN s ELSE Append(s, x)

EmptyDAG == [nodes |-> <<>>, deps |-> <<>>]

DepsOf(d, node) == IF node \in Range(d.nodes) THEN d.deps[node] ELSE <<>>

\* (mutant) this.map.set(node, new Set()) whether or not the node is there
ensureNode_Reset(d, node) ==
    [nodes |-> SetAdd(d.nodes, node),
     deps  |-> [k \in Range(d.nodes) \cup {node} |->
                   IF k = node THEN <<>> ELSE d.deps[k]]]

ensureNode(d, node) ==
    IF node \in Range(d.nodes)
    THEN d
    ELSE [nodes |-> Append(d.nodes, node),
          deps  |-> [k \in Range(d.nodes) \cup {node} |->
                        IF k = node THEN <<>> ELSE d.deps[k]]]

addNode(d, node) == ensureNode(d, node)

NoCycle == [kind |-> "none", path |-> <<>>]

FirstDefined(results) ==
    IF \E i \in DOMAIN results : results[i].kind = "overflow"
    THEN [kind |-> "overflow", path |-> <<>>]
    ELSE IF \E i \in DOMAIN results : results[i].kind = "cycle"
    THEN results[CHOOSE i \in DOMAIN results :
                    /\ results[i].kind = "cycle"
                    /\ \A j \in DOMAIN results :
                          results[j].kind = "cycle" => i <= j]
    ELSE NoCycle

\* go of detectCyclicDependency.  The source keeps no visited set: a path
\* that repeats a node other than `from` is walked for ever, which the
\* engine ends with a RangeError.  A path longer than the node count
\* repeats such a node.
RECURSIVE goDetect(_, _, _, _)
goDetect(d, from, current, dependencies) ==
    IF dependencies = <<>>
    THEN NoCycle
    ELSE FirstDefined(
           [i \in DOMAIN current |->
              LET node == current[i]
                  ds   == Append(dependencies, node)
              IN  IF node = from
                  THEN [kind |-> "cycle", path |-> ds]
                  ELSE IF Len(ds) > Len(d.nodes)
                  THEN [kind |-> "overflow", path |-> <<>>]
                  ELSE goDetect(d, from, DepsOf(d, node), ds)])

\* (mutant) the path is reported from its end to its start
detectCyclicDependency_Reversed(d, from) ==
    LET r == goDetect(d, from, DepsOf(d, from), <<from>>)
    IN  [kind |-> r.kind,
         path |-> [i \in DOMAIN r.path |-> r.path[Len(r.path) + 1 - i]]]

detectCyclicDependency(d, from) == goDetect(d, from, DepsOf(d, from), <<from>>)

RECURSIVE Join(_, _)
Join(path, sep) ==
    IF path = <<>> THEN ""
    ELSE IF Len(path) = 1 THEN path[1]
    ELSE path[1] \o sep \o Join(Tail(path), sep)

\* (mutant) the path is reported without the key that closed the cycle
CyclicMessage_WithoutFrom(path) ==
    "cyclic dependency detected: " \o Join(Tail(path), " -> ")

CyclicMessage(path) == "cyclic dependency detected: " \o Join(path, " -> ")

\* addEdge returns the graph it leaves behind and what it throws.
addEdge(d, from, to) ==
    LET d1 == ensureNode(d, to)
        d2 == ensureNode(d1, from)
        d3 == [d2 EXCEPT !.deps[from] = SetAdd(@, to)]
        cycle == detectCyclicDependency(d3, from)
    IN  [dag   |-> d3,
         error |-> IF cycle.kind = "cycle"
                   THEN NewError("cyclic", CyclicMessage(cycle.path), cycle.path)
                   ELSE IF cycle.kind = "overflow" THEN StackOverflow
                   ELSE NoError]

\* (mutant) a round peels the first independent key only
RECURSIVE goDepth_OneByOne(_, _, _)
goDepth_OneByOne(nodes, deps, result) ==
    LET all == SelectSeq(nodes, LAMBDA k : deps[k] = <<>>)
        independentKeys == IF all = <<>> THEN <<>> ELSE <<Head(all)>>
        indep     == Range(independentKeys)
        restNodes == SelectSeq(nodes, LAMBDA k : k \notin indep)
        restDeps  == [k \in Range(restNodes) |->
                        SelectSeq(deps[k], LAMBDA x : x \notin indep)]
        next      == <<independentKeys>> \o result
    IN  IF restNodes = <<>>
        THEN [overflow |-> FALSE, levels |-> next]
        ELSE IF independentKeys = <<>>
        THEN [overflow |-> TRUE, levels |-> <<>>]
        ELSE goDepth_OneByOne(restNodes, restDeps, next)

\* go of dependenciesForEachDepth, on the clone.  With no independent key
\* left in a non-empty map the recursion never ends (RangeError).
RECURSIVE goDepth(_, _, _)
goDepth(nodes, deps, result) ==
    LET independentKeys == SelectSeq(nodes, LAMBDA k : deps[k] = <<>>)
        indep     == Range(independentKeys)
        restNodes == SelectSeq(nodes, LAMBDA k : k \notin indep)
        restDeps  == [k \in Range(restNodes) |->
                        SelectSeq(deps[k], LAMBDA x : x \notin indep)]
        next      == <<independentKeys>> \o result
    IN  IF restNodes = <<>>
        THEN [overflow |-> FALSE, levels |-> next]
        ELSE IF independentKeys = <<>>
        THEN [overflow |-> TRUE, levels |-> <<>>]
        ELSE goDepth(restNodes, restDeps, next)

\* (mutant) each round's keys are appended to the result: the least
\* dependent keys come first
dependenciesForEachDepth_Appending(d) ==
    LET r == goDepth(d.nodes, d.deps, <<>>)
    IN  [overflow |-> r.overflow,
         levels   |-> [i \in DOMAIN r.levels |-> r.levels[Len(r.levels) + 1 - i]]]

\* (mutant) every key is put in one level
dependenciesForEachDepth_OneLevel(d) == [overflow |-> FALSE, levels |-> <<d.nodes>>]

dependenciesForEachDepth(d) == goDepth(d.nodes, d.deps, <<>>)

\* (mutant) go works on the live sets: the keys it peels are deleted from
\* every dependency set of the graph
AfterLevels_SharedSets(d) == [d EXCEPT !.deps = [k \in DOMAIN d.deps |-> <<>>]]

\* the graph after dependenciesForEachDepth: go deletes from a clone made
\* of a new Map and, for every key, a new Set
AfterLevels(d) == d

\* ------------------------------------------------------------- Design
\* A blueprint is the sequence of its bindings in property order.
Empty == <<>>

KeysOf(u) == { u[i].key : i \in DOMAIN u }

IndexOf(u, key) == CHOOSE i \in DOMAIN u : u[i].key = key

\* toResource: a bound producer, with the finalizer given or the no-op
toResource(key, resolvable, hasFinalizer) ==
    [key |-> key, kind |-> "bound", reads |-> resolvable,
     finalizer |-> hasFinalizer]

\* (mutant) a key that is there keeps its binding
Spread_KeepFirst(design, resource) ==
    IF resource.key \in KeysOf(design) THEN design
    ELSE Append(design, resource)

\* { ...design, [key]: resource }: an existing key keeps its position
Spread(design, resource) ==
    IF resource.key \in KeysOf(design)
    THEN [design EXCEPT ![IndexOf(design, resource.key)] = resource]
    ELSE Append(design, resource)

\* (mutant) bind writes the binding into this.design
AfterBind_Assigned(mapping, made) == made

\* the receiver's mapping after bind: bind spreads this.design into a new
\* object literal and writes only to that
AfterBind(mapping, made) == mapping

bind(design, key, resolvable, hasFinalizer) ==
    Spread(design, toResource(key, resolvable, hasFinalizer))

\* bindResource: bind with the finalizer resource => resource.finalize()
bindResource(design, key, resolvable) == bind(design, key, resolvable, TRUE)

\* the receiver's mapping after merge: both mappings are spread into a new
\* object literal
AfterMerge(mapping, made) == mapping

\* (mutant) { ...that.design, ...this.design }: the receiver's bindings win
merge_LeftBiased(this, that) ==
    this \o SelectSeq(that, LAMBDA r : r.key \notin KeysOf(this))

RECURSIVE merge(_, _)
merge(this, that) ==
    IF that = <<>> THEN this
    ELSE merge(Spread(this, Head(that)), Tail(that))

\* (mutant) the entries of Design.pure carry a finalizer that does work
pure_Finalized(mapping) ==
    [i \in DOMAIN mapping |->
        [key |-> mapping[i], kind |-> "pure", reads |-> {}, finalizer |-> TRUE]]

\* Design.pure: every entry resolves to its literal and has the no-op finalizer
pure(mapping) ==
    [i \in DOMAIN mapping |->
        [key |-> mapping[i], kind |-> "pure", reads |-> {}, finalizer |-> FALSE]]

\* ------------------------------------------------------------ resolver
VARIABLES
    design,      \* the blueprint the caller holds (Design.design)
    requirements,\* the keys of the mapping passed to Design.resolve
    underlying,  \* the merged blueprint handed to resolve()
    rs,          \* resolve(): "init" | "loop" | "await" | "ok" | "fail"
    loopIndex,   \* buildContainer's for..in position
    dag,         \* the DAG of this resolve call
    cell,        \* per key: `resolved` of wrapResolve
    pc,          \* per key: where its producer is
    stack,       \* producers executing synchronously, innermost last
    invoked,     \* per key: times underlying[key].resolve was called
    holding,     \* per key: promises its producer has read and not awaited
    ndelays,     \* per key: external suspensions of its running producer
    observed,    \* per requester and key: the outcome the requester saw
    caught,      \* whether some producer has caught an error it received
    container,   \* buildContainer's container object
    rejection    \* what resolve() rejected with

resolverVars ==
    <<design, requirements, underlying, rs, loopIndex, dag, cell, pc, stack,
      invoked, holding, ndelays, observed, caught, container, rejection>>

Keys == KeysOf(underlying)

Resource(key) == underlying[IndexOf(underlying, key)]

Unset == [st |-> "unset", value |-> NoValue, error |-> NoError]
Pending == [st |-> "pending", value |-> NoValue, error |-> NoError]
Fulfilled(v) == [st |-> "fulfilled", value |-> v, error |-> NoError]
Rejected(e) == [st |-> "rejected", value |-> NoValue, error |-> e]

Settled(c) == c.st \in {"fulfilled", "rejected"}

Idle == [st |-> "idle", on |-> ""]
Running == [st |-> "run", on |-> ""]
Delayed == [st |-> "delay", on |-> ""]
Awaiting(x) == [st |-> "await", on |-> x]
Done == [st |-> "done", on |-> ""]

Top == stack[Len(stack)]
Pop == SubSeq(stack, 1, Len(stack) - 1)

\* (mutant) once resolve has failed nothing that is pending is resumed
Quiescent_UntilFailure == stack = <<>> /\ rs \in {"await", "ok"}

\* no synchronous segment is running: a reaction may run
Quiescent == stack = <<>> /\ rs \in {"await", "ok", "fail"}

\* (mutant) the .catch handler wraps every error it is given
wrapError_Rewrap(key, e) ==
    [root    |-> TRUE,
     origin  |-> key,
     n       |-> invoked[key],
     message |-> "failed to resolve \"" \o key \o "\" because: " \o e.message,
     cause   |-> e.cause,
     path    |-> e.path]

\* (mutant) the wrapped error is not tagged as a root error
wrapError_Untagged(key, e) ==
    [root    |-> FALSE,
     origin  |-> key,
     n       |-> invoked[key],
     message |-> "failed to resolve \"" \o key \o "\" because: " \o e.message,
     cause   |-> e.cause,
     path    |-> e.path]

\* the handler of .catch: wrap once, rethrow a root error as it is
wrapError(key, e) ==
    IF e.root
    THEN e
    ELSE [root    |-> TRUE,
          origin  |-> key,
          n       |-> invoked[key],
          message |-> "failed to resolve \"" \o key \o "\" because: " \o e.message,
          cause   |-> e.cause,
          path    |-> e.path]

\* (mutant) no memoization: every access starts the producer
IsUnresolved_Always(key) == TRUE

\* (mutant) the value is memoized, not the promise: an access before the
\* producer has settled starts it again
IsUnresolved_UntilSettled(key) == cell[key].st \in {"unset", "pending"}

\* typeof resolved === 'undefined'
IsUnresolved(key) == cell[key].st = "unset"

\* the second half of the wrapped accessor: start the producer on first
\* access.  A literal resolves at once; a bound producer starts running
\* synchronously, nested in whoever accessed it.
StartOnFirstAccess(key) ==
    IF IsUnresolved(key)
    THEN /\ invoked' = [invoked EXCEPT ![key] = @ + 1]
         /\ IF Resource(key).kind = "pure"
            THEN /\ cell' = [cell EXCEPT ![key] = Fulfilled(Literal(key))]
                 /\ pc' = [pc EXCEPT ![key] = Done]
                 /\ stack' = stack
            ELSE /\ cell' = cell
                 /\ pc' = [pc EXCEPT ![key] = Running]
                 /\ stack' = Append(stack, key)
    ELSE UNCHANGED <<cell, pc, stack, invoked>>

\* the producer's promise settles: `resolved` takes the outcome
Settle(key, outcome) ==
    /\ cell' = [cell EXCEPT ![key] = outcome]
    /\ pc' = [pc EXCEPT ![key] = Done]
    /\ holding' = [holding EXCEPT ![key] = {}]
    /\ ndelays' = [ndelays EXCEPT ![key] = 0]

\* the reads explored: those the producer's body holds, each once
CanRead(by, key) ==
    /\ key \in Resource(by).reads
    /\ key \notin Range(DepsOf(dag, by))

\* the producer suspends: its synchronous segment ends, `resolved` is set
Suspend(key, where) ==
    /\ pc' = [pc EXCEPT ![key] = where]
    /\ cell' = [cell EXCEPT ![key] = IF @.st = "unset" THEN Pending ELSE @]
    /\ stack' = Pop

InitResolve ==
    /\ design = Empty
    /\ requirements = <<>>
    /\ underlying = <<>>
    /\ rs = "init"
    /\ loopIndex = 0
    /\ dag = EmptyDAG
    /\ cell = <<>>
    /\ pc = <<>>
    /\ stack = <<>>
    /\ invoked = <<>>
    /\ holding = <<>>
    /\ ndelays = <<>>
    /\ observed = <<>>
    /\ caught = FALSE
    /\ container = <<>>
    /\ rejection = NoError

IsPrefix(s, t) == Len(s) <= Len(t) /\ SubSeq(t, 1, Len(s)) = s

BoundKeys(d) == [i \in DOMAIN d |-> d[i].key]
BoundReads(d) == [i \in DOMAIN d |-> d[i].reads]
BoundFinalizers(d) == [i \in DOMAIN d |-> d[i].finalizer]

inputVars == <<design, requirements, underlying>>

\* Design.bind
Bind(key, resolvable, hasFinalizer) ==
    /\ rs = "init"
    /\ \E in \in Inputs :
          /\ IsPrefix(Append(BoundKeys(design), key), in.bound)
          /\ IsPrefix(Append(BoundReads(design), resolvable), in.reads)
          /\ IsPrefix(Append(BoundFinalizers(design), hasFinalizer), in.finalizers)
    /\ design' = bind(design, key, resolvable, hasFinalizer)
    /\ UNCHANGED <<requirements, underlying, rs, loopIndex, dag, cell, pc,
                   stack, invoked, holding, ndelays, observed, caught,
                   container, rejection>>

\* Design.bindResource
BindResource(key, resolvable) ==
    /\ rs = "init"
    /\ \E in \in Inputs :
          /\ IsPrefix(Append(BoundKeys(design), key), in.bound)
          /\ IsPrefix(Append(BoundReads(design), resolvable), in.reads)
          /\ IsPrefix(Append(BoundFinalizers(design), TRUE), in.finalizers)
    /\ design' = bindResource(design, key, resolvable)
    /\ UNCHANGED <<requirements, underlying, rs, loopIndex, dag, cell, pc,
                   stack, invoked, holding, ndelays, observed, caught,
                   container, rejection>>

\* Design.resolve(requirements), up to buildContainer's loop
Resolve(mapping) ==
    /\ rs = "init"
    /\ \E in \in Inputs :
          /\ in.bound = BoundKeys(design)
          /\ in.reads = BoundReads(design)
          /\ in.finalizers = BoundFinalizers(design)
          /\ in.requirements = mapping
    /\ requirements' = mapping
    /\ LET u == merge(design, pure(mapping))
           ks == KeysOf(u)
       IN  /\ underlying' = u
           /\ rs' = IF u = <<>> THEN "await" ELSE "loop"
           /\ loopIndex' = 1
           /\ dag' = EmptyDAG
           /\ cell' = [k \in ks |-> Unset]
           /\ pc' = [k \in ks |-> Idle]
           /\ invoked' = [k \in ks |-> 0]
           /\ holding' = [k \in ks |-> {}]
           /\ ndelays' = [k \in ks |-> 0]
           /\ observed' = [r \in ks \cup {"top"} |-> [k \in ks |-> Unset]]
    /\ UNCHANGED <<design, stack, caught, container, rejection>>

\* one iteration of buildContainer's loop: injector[key]()
LoopStep ==
    /\ rs = "loop"
    /\ stack = <<>>
    /\ LET key == underlying[loopIndex].key
       IN  /\ dag' = addNode(dag, key)
           /\ StartOnFirstAccess(key)
    /\ loopIndex' = loopIndex + 1
    /\ rs' = IF loopIndex = Len(underlying) THEN "await" ELSE "loop"
    /\ UNCHANGED <<inputVars, holding, ndelays, observed, caught, container,
                   rejection>>

\* (mutant) the accessor starts the producer and returns its promise
\* without recording the edge
Read_WithoutEdge(key) ==
    /\ stack # <<>>
    /\ key \in Keys
    /\ CanRead(Top, key)
    /\ key \notin holding[Top]
    /\ dag' = dag
    /\ holding' = [holding EXCEPT ![Top] = @ \cup {key}]
    /\ StartOnFirstAccess(key)
    /\ UNCHANGED <<inputVars, rs, loopIndex, ndelays, observed, caught,
                   container, rejection>>

\* the running producer reads injector.key and gets its promise
Read(key) ==
    /\ stack # <<>>
    /\ key \in Keys
    /\ CanRead(Top, key)
    /\ LET by == Top
           edge == addEdge(dag, by, key)
       IN  /\ edge.error = NoError
           /\ dag' = edge.dag
           /\ holding' = [holding EXCEPT ![by] = @ \cup {key}]
           /\ StartOnFirstAccess(key)
    /\ UNCHANGED <<inputVars, rs, loopIndex, ndelays, observed, caught,
                   container, rejection>>

\* the running producer reads injector.key for a key the merged blueprint
\* does not have: bindInjector defined no getter for it, the property
\* access yields undefined, nothing is called and nothing is thrown
ReadAbsent(key) ==
    /\ stack # <<>>
    /\ key \notin Keys
    /\ key \in Resource(Top).reads
    /\ key \notin holding[Top]
    /\ holding' = [holding EXCEPT ![Top] = @ \cup {key}]
    /\ UNCHANGED <<inputVars, rs, loopIndex, dag, cell, pc, stack, invoked,
                   ndelays, observed, caught, container, rejection>>

\* the read throws (addEdge failed); the producer lets it propagate, or
\* catches it and goes on
ReadThrows(key, catches) ==
    /\ stack # <<>>
    /\ key \in Keys
    /\ CanRead(Top, key)
    /\ LET by == Top
           edge == addEdge(dag, by, key)
       IN  /\ edge.error # NoError
           /\ dag' = edge.dag
           /\ IF catches
              THEN /\ caught' = TRUE
                   /\ UNCHANGED <<cell, pc, stack, holding, ndelays>>
              ELSE /\ Settle(by, Rejected(wrapError(by, edge.error)))
                   /\ stack' = Pop
                   /\ UNCHANGED caught
    /\ UNCHANGED <<inputVars, rs, loopIndex, invoked, observed, container,
                   rejection>>

\* the running producer awaits something external
Delay ==
    /\ stack # <<>>
    /\ ndelays[Top] < MaxDelays
    /\ ndelays' = [ndelays EXCEPT ![Top] = @ + 1]
    /\ Suspend(Top, Delayed)
    /\ UNCHANGED <<inputVars, rs, loopIndex, dag, invoked, holding, observed,
                   caught, container, rejection>>

\* the running producer awaits (or returns) a promise it has read
Await(key) ==
    /\ stack # <<>>
    /\ key \in holding[Top]
    /\ holding' = [holding EXCEPT ![Top] = @ \ {key}]
    /\ Suspend(Top, Awaiting(key))
    /\ UNCHANGED <<inputVars, rs, loopIndex, dag, invoked, ndelays, observed,
                   caught, container, rejection>>

\* the producer's body returns a value
Return ==
    /\ stack # <<>>
    /\ Settle(Top, Fulfilled(Produced(Top, invoked[Top])))
    /\ stack' = Pop
    /\ UNCHANGED <<inputVars, rs, loopIndex, dag, invoked, observed, caught,
                   container, rejection>>

\* the producer's body throws an error of its own
Throw ==
    /\ stack # <<>>
    /\ Settle(Top, Rejected(wrapError(Top, OwnError)))
    /\ stack' = Pop
    /\ UNCHANGED <<inputVars, rs, loopIndex, dag, invoked, observed, caught,
                   container, rejection>>

\* the external await of a suspended producer completes
ResumeDelay(key) ==
    /\ Quiescent
    /\ key \in Keys
    /\ pc[key] = Delayed
    /\ pc' = [pc EXCEPT ![key] = Running]
    /\ stack' = <<key>>
    /\ UNCHANGED <<inputVars, rs, loopIndex, dag, cell, invoked, holding,
                   ndelays, observed, caught, container, rejection>>

\* (mutant) a requester is handed a promise that never fulfils
Outcome_NeverFulfils(key) == IF cell[key].st = "fulfilled" THEN Pending ELSE cell[key]

\* what a requester of key's promise is given when the promise has settled
Outcome(key) == cell[key]

\* the promise a producer awaits has settled: it resumes with the value,
\* or with the failure, which it lets propagate or catches
ResumeAwait(key, catches) ==
    /\ Quiescent
    /\ key \in Keys
    /\ pc[key].st = "await"
    /\ LET outcome == Outcome(pc[key].on)
       IN  /\ Settled(outcome)
           /\ observed' = [observed EXCEPT ![key][pc[key].on] = outcome]
           /\ IF outcome.st = "rejected" /\ ~catches
              THEN /\ Settle(key, Rejected(wrapError(key, outcome.error)))
                   /\ stack' = stack
                   /\ UNCHANGED caught
              ELSE /\ pc' = [pc EXCEPT ![key] = Running]
                   /\ stack' = <<key>>
                   /\ caught' = (caught \/ outcome.st = "rejected")
                   /\ UNCHANGED <<cell, holding, ndelays>>
    /\ UNCHANGED <<inputVars, rs, loopIndex, dag, invoked, container,
                   rejection>>

\* buildContainer's .then(value => { container[key] = value })
ContainerThen(key) ==
    /\ Quiescent
    /\ key \in Keys
    /\ key \notin DOMAIN container
    /\ Outcome(key).st = "fulfilled"
    /\ container' = [k \in DOMAIN container \cup {key} |->
                        IF k = key THEN Outcome(key).value ELSE container[k]]
    /\ observed' = [observed EXCEPT !["top"][key] = Outcome(key)]
    /\ UNCHANGED <<inputVars, rs, loopIndex, dag, cell, pc, stack, invoked,
                   holding, ndelays, caught, rejection>>

\* (mutant) Promise.race instead of Promise.all: the first value returns
AllFulfilled_First == container # <<>> \/ Keys = {}

\* (mutant) Promise.allSettled instead of Promise.all: resolve returns once
\* every promise has settled, whatever the outcome
AllFulfilled_Settled == \A k \in Keys : Settled(cell[k])

\* Promise.all(promises) has fulfilled: every .then has stored its value
AllFulfilled == DOMAIN container = Keys

\* resolve() returns { container, finalize }
ResolveReturn ==
    /\ Quiescent
    /\ rs = "await"
    /\ AllFulfilled
    /\ rs' = "ok"
    /\ UNCHANGED <<inputVars, loopIndex, dag, cell, pc, stack, invoked,
                   holding, ndelays, observed, caught, container, rejection>>

\* Promise.all(promises) rejects with a rejected promise's error, and
\* resolve() with it
ResolveReject(key) ==
    /\ Quiescent
    /\ rs = "await"
    /\ key \in Keys
    /\ Outcome(key).st = "rejected"
    /\ rs' = "fail"
    /\ rejection' = Outcome(key).error
    /\ observed' = [observed EXCEPT !["top"][key] = Outcome(key)]
    /\ UNCHANGED <<inputVars, loopIndex, dag, cell, pc, stack, invoked,
                   holding, ndelays, caught, container>>

\* ------------------------------------------------------------ finalize
VARIABLES
    finalized,   \* buildFinalize's one-shot flag
    fz,          \* the first finalize call: "armed" | "running" | "done" | "failed"
    handler,     \* the promisesHandler of that call: "default" | "swallow"
    levels,      \* dag.dependenciesForEachDepth() as that call computed it
    level,       \* the level whose finalizers were started last (0: none yet)
    fin,         \* per key: its finalizer's promise
    finCount,    \* per key: times its finalizer was invoked
    called,      \* the keys in the order their finalizers were invoked
    finArg,      \* per key: the argument its finalizer was invoked with
    later        \* the finalize calls after the first: how many, and what
                 \* the last of them rejected with

finalizeVars ==
    <<finalized, fz, handler, levels, level, fin, finCount, called, finArg,
      later>>

Handlers == {"default", "swallow"}

InitFinalize ==
    /\ finalized = FALSE
    /\ fz = "armed"
    /\ handler = "default"
    /\ levels = <<>>
    /\ level = 0
    /\ fin = <<>>
    /\ finCount = <<>>
    /\ called = <<>>
    /\ finArg = <<>>
    /\ later = [n |-> 0, error |-> NoError]

\* new Error('already finalized')
AlreadyFinalized == NewError("finalized", "already finalized", <<>>)

\* (mutant) the flag is never seen set
IsFinalized_Never == FALSE

\* if (finalized)
IsFinalized == finalized

\* result.finalize(promisesHandler).  A call that finds the flag set
\* throws; the first call sets the flag, then takes the levels of the graph
\* as it stands now.
Finalize(promisesHandler) ==
    /\ rs = "ok"
    /\ stack = <<>>
    /\ IF IsFinalized
       THEN /\ later.n < MaxLaterCalls
            /\ later' = [n |-> later.n + 1, error |-> AlreadyFinalized]
            /\ UNCHANGED <<finalized, fz, handler, levels, level, fin,
                           finCount, called, finArg>>
       ELSE /\ finalized' = TRUE
            /\ handler' = promisesHandler
            /\ LET depths == dependenciesForEachDepth(dag)
               IN  IF depths.overflow
                   THEN /\ fz' = "failed"
                        /\ levels' = <<>>
                   ELSE /\ fz' = "running"
                        /\ levels' = depths.levels
            /\ level' = 0
            /\ fin' = [k \in Keys |-> "idle"]
            /\ finCount' = [k \in Keys |-> 0]
            /\ finArg' = [k \in Keys |-> NoValue]
            /\ UNCHANGED <<called, later>>
    /\ UNCHANGED resolverVars

\* Promise.all of the level's finalizer promises has fulfilled
LevelFulfilled(l) == \A k \in Range(levels[l]) : fin[k] = "done"
\* Promise.all of the level's finalizer promises has rejected
LevelRejected(l) == \E k \in Range(levels[l]) : fin[k] = "failed"

\* (mutant) the reduce does not await the handler of the previous level
HandlerFulfilled_NoWait == TRUE

\* (mutant) the handler given is not used: the level's Promise.all decides
HandlerFulfilled_NoSwallow == IF level = 0 THEN TRUE ELSE LevelFulfilled(level)

\* promisesHandler(ps) has fulfilled for the level started last
HandlerFulfilled ==
    IF level = 0 THEN TRUE
    ELSE IF handler = "default" THEN LevelFulfilled(level)
    ELSE LevelFulfilled(level) \/ LevelRejected(level)

\* promisesHandler(ps) has rejected for the level started last
HandlerRejected ==
    /\ level > 0
    /\ handler = "default"
    /\ LevelRejected(level)

\* (mutant) the finalizer is passed a value produced anew, not the
\* container's
FinalizerArgument_Fresh(key) == Produced(key, invoked[key] + 1)

\* container[key], the argument of underlying[key].finalize
FinalizerArgument(key) == container[key]

\* keys.map(key => underlying[key].finalize(container[key])): every
\* finalizer of the level is invoked, in order; the no-op finalizer's
\* promise is fulfilled from the start
StartLevel(l) ==
    /\ fin' = [k \in Keys |->
                 IF k \in Range(levels[l])
                 THEN (IF Resource(k).finalizer THEN "running" ELSE "done")
                 ELSE fin[k]]
    /\ finCount' = [k \in Keys |->
                      IF k \in Range(levels[l]) THEN finCount[k] + 1
                      ELSE finCount[k]]
    /\ finArg' = [k \in Keys |->
                    IF k \in Range(levels[l]) THEN FinalizerArgument(k)
                    ELSE finArg[k]]
    /\ called' = called \o levels[l]

\* one round of the reduce: the previous level's handler has fulfilled,
\* the next level's finalizers start
NextLevel ==
    /\ fz = "running"
    /\ stack = <<>>
    /\ level < Len(levels)
    /\ HandlerFulfilled
    /\ level' = level + 1
    /\ StartLevel(level + 1)
    /\ UNCHANGED <<resolverVars, finalized, fz, handler, levels, later>>

\* the last level's handler has fulfilled: finalize() fulfils
FinalizeReturn ==
    /\ fz = "running"
    /\ level = Len(levels)
    /\ HandlerFulfilled
    /\ fz' = "done"
    /\ UNCHANGED <<resolverVars, finalized, handler, levels, level, fin,
                   finCount, called, finArg, later>>

\* a level's handler has rejected: the reduce chain rejects, finalize() fails
FinalizeReject ==
    /\ fz = "running"
    /\ HandlerRejected
    /\ fz' = "failed"
    /\ UNCHANGED <<resolverVars, finalized, handler, levels, level, fin,
                   finCount, called, finArg, later>>

\* a finalizer's promise settles
FinalizerSettles(key, ok) ==
    /\ key \in DOMAIN fin
    /\ fin[key] = "running"
    /\ fin' = [fin EXCEPT ![key] = IF ok THEN "done" ELSE "failed"]
    /\ UNCHANGED <<resolverVars, finalized, fz, handler, levels, level,
                   finCount, called, finArg, later>>

\* a value that kept the injector its producer was given reads injector.key
\* after resolve has returned: the accessor records the edge in the graph
\* that finalize holds, and returns the memoized promise.  Explored for the
\* reads that addEdge accepts, until finalize is called, which takes the
\* levels at once.
LateRead(by, key) ==
    /\ rs = "ok"
    /\ stack = <<>>
    /\ ~finalized
    /\ by \in Keys
    /\ key \in Keys
    /\ CanRead(by, key)
    /\ addEdge(dag, by, key).error = NoError
    /\ dag' = addEdge(dag, by, key).dag
    /\ UNCHANGED <<inputVars, rs, loopIndex, cell, pc, stack, invoked,
                   holding, ndelays, observed, caught, container, rejection>>

\* ----------------------------------------------------------------- use
VARIABLES
    use          \* Design.use's async function: where it is ("none":
                 \* resolve was called directly, "resolving", "callback",
                 \* "finalizing", "returned", "rejected"), the callback's
                 \* promise, how many times it has called finalize, and
                 \* what it returned or rejected with

useVars == <<use>>

NotUsed ==
    [st |-> "none", cb |-> "none", calls |-> 0, value |-> NoValue,
     error |-> NoError]

InitUse == use = NotUsed

\* what the callback returns, and what it throws
CallbackResult == [src |-> "callback", key |-> "", n |-> 0]
CallbackError == NewError("callback", "callback failed", <<>>)
\* what a failing finalizer throws
FinalizerError == NewError("finalizer", "fails", <<>>)

\* what the first finalize call rejected with: the rejection of a level's
\* Promise.all, or else what dependenciesForEachDepth threw
FinalizeRejection ==
    IF \E k \in DOMAIN fin : fin[k] = "failed" THEN FinalizerError
    ELSE StackOverflow

\* design.use(requirements)(f), up to buildContainer's loop
Use(mapping) ==
    /\ Resolve(mapping)
    /\ use' = [NotUsed EXCEPT !.st = "resolving"]
    /\ UNCHANGED finalizeVars

\* await this.resolve(requirements) fulfils: f(container) is called
UseResolved ==
    /\ use.st = "resolving"
    /\ rs = "ok"
    /\ use' = [use EXCEPT !.st = "callback", !.cb = "pending"]
    /\ UNCHANGED <<resolverVars, finalizeVars>>

\* (mutant) resolve is awaited inside the try block: the finally block
\* calls finalize for a failed resolve too
UseResolveFailed_Finalizes ==
    /\ use.st = "resolving"
    /\ rs = "fail"
    /\ stack = <<>>
    /\ use' = [use EXCEPT !.st = "rejected", !.error = rejection,
                          !.calls = @ + 1]
    /\ UNCHANGED <<resolverVars, finalizeVars>>

\* await this.resolve(requirements) rejects: use rejects with it
UseResolveFailed ==
    /\ use.st = "resolving"
    /\ rs = "fail"
    /\ stack = <<>>
    /\ use' = [use EXCEPT !.st = "rejected", !.error = rejection]
    /\ UNCHANGED <<resolverVars, finalizeVars>>

\* (mutant) finalize is called in the try block, after the callback's
\* result: not when the callback has failed
FinallyRuns_OnSuccessOnly(ok) == ok

\* the finally block runs however the try block ends
FinallyRuns(ok) == TRUE

\* await f(container) settles; the finally block calls finalize()
UseCallbackSettles(ok) ==
    /\ use.st = "callback"
    /\ IF FinallyRuns(ok)
       THEN /\ use' = [use EXCEPT !.st = "finalizing",
                                  !.cb = IF ok THEN "value" ELSE "error",
                                  !.calls = @ + 1]
            /\ Finalize("default")
       ELSE /\ use' = [use EXCEPT !.st = "rejected", !.cb = "error",
                                  !.error = CallbackError]
            /\ UNCHANGED <<resolverVars, finalizeVars>>

\* await finalize() settles: a rejection of finalize leaves the finally
\* block as the function's outcome; otherwise the try block's outcome
\* stands
UseSettles ==
    /\ use.st = "finalizing"
    /\ fz \in {"done", "failed"}
    /\ use' = IF fz = "failed"
              THEN [use EXCEPT !.st = "rejected", !.error = FinalizeRejection]
              ELSE IF use.cb = "error"
              THEN [use EXCEPT !.st = "rejected", !.error = CallbackError]
              ELSE [use EXCEPT !.st = "returned", !.value = CallbackResult]
    /\ UNCHANGED <<resolverVars, finalizeVars>>

\* ------------------------------------------------------- a second call
VARIABLES
    active,      \* the call of resolve that the variables above describe
    other        \* the state of the other call of resolve on the blueprint,
                 \* as it was when the program last turned away from it
                 \* (NoCall: resolve has been called once)

callVars == <<active, other>>

NoCall == [rs |-> "none"]

InitCalls == active = 1 /\ other = NoCall

\* the blueprints that are resolved a second time
ResolvedTwice == { <<"service">> }

\* (mutant) one graph for the module, which every call works on
GraphOf_Module(call) == 0

\* const dag = new DAG() in resolve: the graph a call works on is its own
GraphOf(call) == call

\* (mutant) the promise is memoized on the blueprint's resource
CellsOf_Blueprint(call) == 0

\* let resolved, in the closure resolveFor(key) makes for a call: the
\* memoization cells of a call are its own
CellsOf(call) == call

\* (mutant) one flag for every finalize function
FlagOf_Module(call) == 0

\* let finalized = false, in buildFinalize: the flag of a result is its own
FlagOf(call) == call

\* what belongs to the call the variables describe
ThisCall ==
    [rs |-> rs, loopIndex |-> loopIndex, dag |-> dag, cell |-> cell,
     pc |-> pc, invoked |-> invoked, holding |-> holding,
     ndelays |-> ndelays, observed |-> observed, caught |-> caught,
     container |-> container, rejection |-> rejection,
     finalized |-> finalized, fz |-> fz, handler |-> handler,
     levels |-> levels, level |-> level, fin |-> fin,
     finCount |-> finCount, called |-> called, finArg |-> finArg,
     later |-> later]

\* design.resolve(requirements) is called again, with the same
\* requirements, while the first call is pending or after it has settled
ResolveAgain ==
    /\ other = NoCall
    /\ use.st = "none"
    /\ Quiescent
    /\ BoundKeys(design) \in ResolvedTwice
    /\ other' = ThisCall
    /\ active' = 2
    /\ rs' = IF underlying = <<>> THEN "await" ELSE "loop"
    /\ loopIndex' = 1
    /\ dag' = IF GraphOf(2) = GraphOf(1) THEN dag ELSE EmptyDAG
    /\ cell' = IF CellsOf(2) = CellsOf(1) THEN cell
               ELSE [k \in Keys |-> Unset]
    /\ pc' = [k \in Keys |-> Idle]
    /\ invoked' = [k \in Keys |-> 0]
    /\ holding' = [k \in Keys |-> {}]
    /\ ndelays' = [k \in Keys |-> 0]
    /\ observed' = [r \in Keys \cup {"top"} |-> [k \in Keys |-> Unset]]
    /\ caught' = FALSE
    /\ container' = <<>>
    /\ rejection' = NoError
    /\ finalized' = IF FlagOf(2) = FlagOf(1) THEN finalized ELSE FALSE
    /\ fz' = "armed"
    /\ handler' = "default"
    /\ levels' = <<>>
    /\ level' = 0
    /\ fin' = <<>>
    /\ finCount' = <<>>
    /\ called' = <<>>
    /\ finArg' = <<>>
    /\ later' = [n |-> 0, error |-> NoError]
    /\ UNCHANGED <<inputVars, stack, useVars>>

\* between two jobs of the event loop: the next job is the other call's.
\* What the two calls share stays as it is.
Switch ==
    /\ other # NoCall
    /\ Quiescent
    /\ active' = 3 - active
    /\ other' = ThisCall
    /\ rs' = other.rs
    /\ loopIndex' = other.loopIndex
    /\ dag' = IF GraphOf(2) = GraphOf(1) THEN dag ELSE other.dag
    /\ cell' = IF CellsOf(2) = CellsOf(1) THEN cell ELSE other.cell
    /\ pc' = other.pc
    /\ invoked' = other.invoked
    /\ holding' = other.holding
    /\ ndelays' = other.ndelays
    /\ observed' = other.observed
    /\ caught' = other.caught
    /\ container' = other.container
    /\ rejection' = other.rejection
    /\ finalized' = IF FlagOf(2) = FlagOf(1) THEN finalized
                    ELSE other.finalized
    /\ fz' = other.fz
    /\ handler' = other.handler
    /\ levels' = other.levels
    /\ level' = other.level
    /\ fin' = other.fin
    /\ finCount' = other.finCount
    /\ called' = other.called
    /\ finArg' = other.finArg
    /\ later' = other.later
    /\ UNCHANGED <<inputVars, stack, useVars>>

\* a step of the call in view
SameCall == active' = active

\* ------------------------------------------- DAG and Design on their own
VARIABLES
    graph,       \* a DAG object driven directly, as dag.spec.ts does
    designs,     \* the Design objects made so far, in order of creation:
                 \* for each, its `design` mapping as it is now
    last         \* the last operation applied to graph or to a Design, with
                 \* its arguments and its outcome

unitVars == <<graph, designs, last>>

NoOperation ==
    [op |-> "none", from |-> "", to |-> "", error |-> NoError,
     levels |-> <<>>, overflow |-> FALSE, leveled |-> FALSE]

InitUnits ==
    /\ graph = EmptyDAG
    /\ designs = <<Empty>>
    /\ last = NoOperation

\* Design objects made by one program
MaxDesigns == 4

\* the keys, producers and finalizers bound when Design is driven directly
DesignKeys == {"x", "y"}
DesignResolvables == {{}, {"x"}}

\* made = designs[this].bind(key, resolvable, finalize)
BindDesign(this, key, resolvable, hasFinalizer) ==
    /\ this \in DOMAIN designs
    /\ Len(designs) < MaxDesigns
    /\ LET made == bind(designs[this], key, resolvable, hasFinalizer)
       IN  /\ designs' = Append([designs EXCEPT
                                   ![this] = AfterBind(designs[this], made)],
                                made)
           /\ last' = [op |-> "bind", this |-> this, that |-> this,
                       key |-> key,
                       resource |-> toResource(key, resolvable, hasFinalizer),
                       made |-> Len(designs) + 1]
    /\ UNCHANGED graph

\* made = designs[this].merge(designs[that])
MergeDesigns(this, that) ==
    /\ this \in DOMAIN designs
    /\ that \in DOMAIN designs
    /\ Len(designs) < MaxDesigns
    /\ LET made == merge(designs[this], designs[that])
       IN  /\ designs' = Append([designs EXCEPT
                                   ![this] = AfterMerge(designs[this], made)],
                                made)
           /\ last' = [op |-> "merge", this |-> this, that |-> that,
                       key |-> "", resource |-> toResource("", {}, FALSE),
                       made |-> Len(designs) + 1]
    /\ UNCHANGED graph

\* The graphs explored: the keys a graph is built of, and the edges that
\* are added to it, in any order and any number of times.
Graphs ==
    { [nodes |-> {"1", "2", "3", "4"},
       edges |-> { <<"1", "2">>, <<"2", "3">>, <<"3", "4">>, <<"4", "1">>,
                   <<"3", "2">> }],
      [nodes |-> {"a1", "a2", "b", "c1", "c2"},
       edges |-> { <<"a1", "b">>, <<"a2", "b">>, <<"b", "c1">>,
                   <<"b", "c2">> }] }

GraphKeys == UNION { g.nodes : g \in Graphs }

\* dag.addNode(node)
AddNode(node) ==
    /\ \E g \in Graphs : node \in g.nodes /\ Range(graph.nodes) \subseteq g.nodes
    /\ graph' = addNode(graph, node)
    /\ last' = [NoOperation EXCEPT !.op = "addNode", !.to = node,
                                   !.leveled = last.leveled]
    /\ UNCHANGED designs

\* dag.addEdge(from, to), returning or throwing
AddEdge(from, to) ==
    /\ \E g \in Graphs :
          <<from, to>> \in g.edges /\ Range(graph.nodes) \subseteq g.nodes
    /\ LET edge == addEdge(graph, from, to)
       IN  /\ graph' = edge.dag
           /\ last' = [NoOperation EXCEPT !.op = "addEdge", !.from = from,
                                          !.to = to, !.error = edge.error,
                                          !.leveled = last.leveled]
    /\ UNCHANGED designs

\* dag.dependenciesForEachDepth(), returning or throwing
Levels ==
    /\ LET depths == dependenciesForEachDepth(graph)
       IN  last' = [NoOperation EXCEPT !.op = "levels",
                                       !.levels = depths.levels,
                                       !.overflow = depths.overflow,
                                       !.error = IF depths.overflow
                                                 THEN StackOverflow
                                                 ELSE NoError,
                                       !.leveled = TRUE]
    /\ graph' = AfterLevels(graph)
    /\ UNCHANGED designs

vars == <<resolverVars, finalizeVars, useVars, callVars, unitVars>>

\* ------------------------------------------------------- specification
AllKeys == UNION { Range(in.bound) \cup Range(in.requirements) : in \in Inputs }
Resolvables == UNION { Range(in.reads) : in \in Inputs }
RequirementChoices == { in.requirements : in \in Inputs }

Next ==
    \/ \E key \in AllKeys, r \in Resolvables, f \in BOOLEAN :
          Bind(key, r, f) /\ UNCHANGED <<finalizeVars, useVars, callVars, unitVars>>
    \/ \E key \in AllKeys, r \in Resolvables :
          BindResource(key, r)
            /\ UNCHANGED <<finalizeVars, useVars, callVars, unitVars>>
    \/ \E req \in RequirementChoices :
          Resolve(req) /\ UNCHANGED <<finalizeVars, useVars, callVars, unitVars>>
    \/ LoopStep /\ UNCHANGED <<finalizeVars, useVars, callVars, unitVars>>
    \/ \E key \in AllKeys :
          Read(key) /\ UNCHANGED <<finalizeVars, useVars, callVars, unitVars>>
    \/ \E key \in UNION Resolvables :
          ReadAbsent(key) /\ UNCHANGED <<finalizeVars, useVars, callVars, unitVars>>
    \/ \E key \in AllKeys, c \in BOOLEAN :
          ReadThrows(key, c) /\ UNCHANGED <<finalizeVars, useVars, callVars, unitVars>>
    \/ \E by \in AllKeys, key \in AllKeys :
          LateRead(by, key)
            /\ UNCHANGED <<finalizeVars, useVars, callVars, unitVars>>
    \/ Delay /\ UNCHANGED <<finalizeVars, useVars, callVars, unitVars>>
    \/ \E key \in AllKeys :
          Await(key) /\ UNCHANGED <<finalizeVars, useVars, callVars, unitVars>>
    \/ Return /\ UNCHANGED <<finalizeVars, useVars, callVars, unitVars>>
    \/ Throw /\ UNCHANGED <<finalizeVars, useVars, callVars, unitVars>>
    \/ \E key \in AllKeys :
          ResumeDelay(key) /\ UNCHANGED <<finalizeVars, useVars, callVars, unitVars>>
    \/ \E key \in AllKeys, c \in BOOLEAN :
          ResumeAwait(key, c) /\ UNCHANGED <<finalizeVars, useVars, callVars, unitVars>>
    \/ \E key \in AllKeys :
          ContainerThen(key) /\ UNCHANGED <<finalizeVars, useVars, callVars, unitVars>>
    \/ ResolveReturn /\ UNCHANGED <<finalizeVars, useVars, callVars, unitVars>>
    \/ \E key \in AllKeys :
          ResolveReject(key) /\ UNCHANGED <<finalizeVars, useVars, callVars, unitVars>>
    \/ \E h \in Handlers :
          use.st = "none" /\ Finalize(h) /\ UNCHANGED <<useVars, callVars, unitVars>>
    \/ NextLevel /\ UNCHANGED <<useVars, callVars, unitVars>>
    \/ FinalizeReturn /\ UNCHANGED <<useVars, callVars, unitVars>>
    \/ FinalizeReject /\ UNCHANGED <<useVars, callVars, unitVars>>
    \/ \E key \in AllKeys, ok \in BOOLEAN :
          FinalizerSettles(key, ok) /\ UNCHANGED <<useVars, callVars, unitVars>>
    \/ \E req \in RequirementChoices : Use(req) /\ UNCHANGED <<callVars, unitVars>>
    \/ UseResolved /\ UNCHANGED <<callVars, unitVars>>
    \/ UseResolveFailed /\ UNCHANGED <<callVars, unitVars>>
    \/ \E ok \in BOOLEAN : UseCallbackSettles(ok) /\ UNCHANGED <<callVars, unitVars>>
    \/ UseSettles /\ UNCHANGED <<callVars, unitVars>>
    \/ ResolveAgain /\ UNCHANGED unitVars
    \/ Switch /\ UNCHANGED unitVars

Init == InitResolve /\ InitFinalize /\ InitUse /\ InitCalls /\ InitUnits

Spec == Init /\ [][Next]_vars

\* a producer's synchronous segment comes to its end
ProducerEnds ==
    (Delay \/ (\E key \in AllKeys : Await(key)) \/ Return \/ Throw)
        /\ UNCHANGED <<finalizeVars, useVars, callVars, unitVars>>

\* a job of the event loop that resolve's promises have queued
Reaction ==
    (\/ LoopStep
     \/ \E key \in AllKeys : ResumeDelay(key)
     \/ \E key \in AllKeys, c \in BOOLEAN : ResumeAwait(key, c)
     \/ \E key \in AllKeys : ContainerThen(key)
     \/ ResolveReturn
     \/ \E key \in AllKeys : ResolveReject(key))
        /\ UNCHANGED <<finalizeVars, useVars, callVars, unitVars>>

\* Producers end and every queued job is run; with two calls of resolve
\* the event loop keeps turning from one to the other, and a job that is
\* ready whenever its call is in view is run.
FairSpec ==
    /\ Spec
    /\ WF_vars(ProducerEnds)
    /\ SF_vars(Reaction)
    /\ WF_vars(Switch /\ UNCHANGED unitVars)

\* a job of the event loop that finalize's promises have queued
FinalizeStep ==
    (NextLevel \/ FinalizeReturn \/ FinalizeReject)
        /\ UNCHANGED <<useVars, callVars, unitVars>>

\* a finalizer's promise settles
FinalizerEnds ==
    (\E key \in AllKeys, ok \in BOOLEAN : FinalizerSettles(key, ok))
        /\ UNCHANGED <<useVars, callVars, unitVars>>

\* a finalize call whose finalizers all come to an end, in a program whose
\* other jobs are run too
FairFinalizeSpec ==
    /\ FairSpec
    /\ SF_vars(FinalizeStep)
    /\ SF_vars(FinalizerEnds)

\* what use's function does once a promise it awaits has settled
UseStep ==
    (UseResolved \/ UseResolveFailed \/ UseSettles) /\ UNCHANGED <<callVars, unitVars>>

\* the callback's promise settles
CallbackEnds ==
    (\E ok \in BOOLEAN : UseCallbackSettles(ok)) /\ UNCHANGED <<callVars, unitVars>>

\* a call of use whose callback and finalizers all come to an end
FairUseSpec ==
    /\ Spec
    /\ WF_vars(FinalizeStep)
    /\ WF_vars(FinalizerEnds)
    /\ WF_vars(UseStep)
    /\ WF_vars(CallbackEnds)

\* a DAG driven directly: any sequence of addNode, addEdge and
\* dependenciesForEachDepth calls on one graph
DagNext ==
    \/ \E node \in GraphKeys :
          AddNode(node)
            /\ UNCHANGED <<resolverVars, finalizeVars, useVars, callVars>>
    \/ \E from \in GraphKeys, to \in GraphKeys :
          AddEdge(from, to)
            /\ UNCHANGED <<resolverVars, finalizeVars, useVars, callVars>>
    \/ Levels /\ UNCHANGED <<resolverVars, finalizeVars, useVars, callVars>>

DagSpec == Init /\ [][DagNext]_vars

\* Design driven directly: any sequence of bind and merge calls on the
\* Design objects made so far, beginning with Design.empty
DesignNext ==
    \/ \E this \in 1 .. MaxDesigns, key \in DesignKeys,
          r \in DesignResolvables, f \in BOOLEAN :
          BindDesign(this, key, r, f)
            /\ UNCHANGED <<resolverVars, finalizeVars, useVars, callVars>>
    \/ \E this \in 1 .. MaxDesigns, that \in 1 .. MaxDesigns :
          MergeDesigns(this, that)
            /\ UNCHANGED <<resolverVars, finalizeVars, useVars, callVars>>

DesignSpec == Init /\ [][DesignNext]_vars

\* --------------------------------------------------------------- claims
Edge(a, b) == b \in Range(DepsOf(dag, a))

LoopOver == rs \in {"await", "ok", "fail"}

\* there is a path of at least one and at most n edges from a to b
RECURSIVE PathWithin(_, _, _, _)
PathWithin(d, a, b, n) ==
    /\ n > 0
    /\ \E c \in Range(DepsOf(d, a)) : c = b \/ PathWithin(d, c, b, n - 1)

\* the reads recorded so far form a cycle
DagCyclic == \E k \in Range(dag.nodes) : PathWithin(dag, k, k, Len(dag.nodes))

\* some producer has failed
ProducerFailed == \E k \in Keys : cell[k].st = "rejected"

\* C1: within one resolve call no producer is invoked a second time, and
\* once buildContainer's loop is over every key of the merged blueprint
\* has had its producer invoked exactly once, however many dependents read
\* the key and however the suspended producers interleave.
C1_ProducerInvokedOnce ==
    \A k \in Keys :
        /\ invoked[k] <= 1
        /\ LoopOver => invoked[k] = 1

\* two dependents have read the same key, and resolve has returned
C1_Witness ==
    /\ rs = "ok"
    /\ \E k \in Keys, a \in Keys, b \in Keys :
          /\ a # b /\ a # k /\ b # k
          /\ Edge(a, k) /\ Edge(b, k)
          /\ observed[a][k].st = "fulfilled"
          /\ observed[b][k].st = "fulfilled"
          /\ invoked[k] = 1

\* C2: every requester of a key (a dependent that awaited injector.key,
\* and the container build) has observed the same outcome, the one the
\* key's single evaluation settled with: the same value object, or the same
\* error object.
C2_SameOutcome ==
    \A r \in DOMAIN observed : \A k \in Keys :
        observed[r][k].st # "unset" =>
            /\ Settled(observed[r][k])
            /\ observed[r][k] = cell[k]
            /\ \A q \in DOMAIN observed :
                  observed[q][k].st # "unset" => observed[q][k] = observed[r][k]
            /\ observed[r][k].st = "fulfilled" =>
                  observed[r][k].value \in {Produced(k, 1), Literal(k)}
            /\ observed[r][k].st = "rejected" => observed[r][k].error.root

\* a dependent that awaited the key and the container build have both seen
\* the key's failure
C2_Witness ==
    \E k \in Keys, a \in Keys :
        /\ a # k
        /\ observed[a][k].st = "rejected"
        /\ observed["top"][k].st = "rejected"

\* C3: when resolve has succeeded, the container's keys are the bound keys
\* and the requirement keys, every cell has settled successfully, and
\* container[K] is the value K's producer settled with.
C3_ContainerComplete ==
    rs = "ok" =>
        /\ DOMAIN container = Range(BoundKeys(design)) \cup Range(requirements)
        /\ \A k \in DOMAIN container :
              /\ cell[k].st = "fulfilled"
              /\ container[k] = cell[k].value
              /\ container[k] =
                    IF k \in Range(requirements) THEN Literal(k) ELSE Produced(k, 1)

\* resolve has succeeded on bound keys and a requirement
C3_Witness ==
    /\ rs = "ok"
    /\ requirements # <<>>
    /\ Cardinality(DOMAIN container) = 3

\* C4: a resolve call that has started eventually succeeds, unless the
\* reads come to form a cycle or a producer fails: with an acyclic graph and
\* producers that terminate without failing, no interleaving of the
\* suspended producers leaves resolve waiting for ever.
C4_AcyclicEventuallySucceeds ==
    (rs \in {"loop", "await"}) ~> (rs = "ok" \/ DagCyclic \/ ProducerFailed)

\* resolve has succeeded on a chain of two reads, both awaited: b awaited
\* a, which was suspended awaiting k
C4_Witness ==
    /\ rs = "ok"
    /\ ~DagCyclic
    /\ \E k \in Keys, a \in Keys, b \in Keys :
          /\ a # k /\ b # a /\ b # k
          /\ observed[a][k].st = "fulfilled"
          /\ observed[b][a].st = "fulfilled"

\* no producer has failed with an error of its own body
NoOwnFailure == \A k \in Keys : cell[k].error.cause # "own"

\* C5: when the reads form a cycle, no producer has caught an error and
\* none has thrown one of its own, resolve does not succeed, and when it
\* has failed it has failed with a cyclic-dependency error.
C5_CycleFailsWithCyclicError ==
    (DagCyclic /\ ~caught /\ NoOwnFailure) =>
        /\ rs # "ok"
        /\ rs = "fail" => rejection.cause = "cyclic"

SelfMessage ==
    "failed to resolve \"self\" because: cyclic dependency detected: self -> self"

\* the producer of the blueprint whose only binding is 'self' has read
\* injector.self and let the error propagate
SelfRead ==
    BoundKeys(underlying) = <<"self">> /\ Edge("self", "self") /\ ~caught

\* C6: in the blueprint whose only binding is 'self', once the producer has
\* read injector.self (and let the error propagate) its promise is rejected
\* with exactly that message and resolve does not succeed; resolve
\* eventually fails, with exactly that message.
C6_SelfDependencyMessage ==
    /\ [](SelfRead =>
            /\ cell["self"].st = "rejected"
            /\ cell["self"].error.message = SelfMessage
            /\ rs # "ok"
            /\ rs = "fail" => rejection.message = SelfMessage)
    /\ SelfRead ~> (rs = "fail" /\ rejection.message = SelfMessage)

\* resolve of the 'self' blueprint has failed
C6_Witness ==
    /\ BoundKeys(underlying) = <<"self">>
    /\ rs = "fail"
    /\ rejection.message = SelfMessage

\* what a cyclic-dependency error reports: the key whose .catch wrapped
\* it is the key whose read closed the cycle, the path starts and ends
\* with that key, and the message is built from both
NamesClosingKey(e) ==
    /\ e.root
    /\ Len(e.path) >= 2
    /\ e.path[1] = e.origin
    /\ e.path[Len(e.path)] = e.origin
    /\ \A i \in 1 .. Len(e.path) - 1 : Edge(e.path[i], e.path[i + 1])
    /\ e.message = "failed to resolve \"" \o e.origin
                     \o "\" because: cyclic dependency detected: "
                     \o Join(e.path, " -> ")

TwoCycleMessage ==
    "failed to resolve \"key2\" because: cyclic dependency detected: key2 -> key1 -> key2"

\* key1, started by buildContainer's loop, has read key2 and is still in its
\* first synchronous segment, and so is key2, which that read started
BothSynchronous ==
    /\ rs = "loop"
    /\ stack = <<"key1", "key2">>
    /\ cell["key1"].st = "unset"
    /\ cell["key2"].st = "unset"
    /\ Edge("key1", "key2")

\* C7: every cyclic-dependency failure, of a producer or of resolve, names
\* the key whose read closed the cycle and reports a path that starts and
\* ends with that key; and when key1 (bound first) has read key2 and key2
\* reads key1, both synchronously and catching nothing, key2 fails with the
\* message
\* failed to resolve "key2" because: cyclic dependency detected: key2 -> key1 -> key2.
C7_CycleNamesClosingKey ==
    /\ [](/\ \A k \in Keys : cell[k].error.cause = "cyclic" =>
                NamesClosingKey(cell[k].error)
          /\ rejection.cause = "cyclic" => NamesClosingKey(rejection))
    /\ [][(/\ BothSynchronous
            /\ ~Edge("key2", "key1") /\ Edge("key2", "key1")'
            /\ ~caught /\ ~caught') =>
             /\ cell'["key2"].st = "rejected"
             /\ cell'["key2"].error.message = TwoCycleMessage]_vars

\* resolve has failed with the error of the 2-cycle that key2 closed, after
\* key1 awaited key2
C7_Witness ==
    /\ rs = "fail"
    /\ rejection.message = TwoCycleMessage
    /\ observed["key1"]["key2"].st = "rejected"

\* key's finalizer has been invoked
Started(key) == finCount[key] > 0

C10_EveryFinalizerOnce ==
    (handler = "default" /\ \A k \in DOMAIN fin : fin[k] # "failed") =>
        /\ fz # "failed"
        /\ fz = "done" => \A k \in Keys : finCount[k] = 1

\* C11: whenever the finalizer of a key has been invoked, the argument it
\* was passed is container[key], the value the key's producer settled with
\* in this resolve call.
C11_FinalizerGetsContainerValue ==
    fz # "armed" =>
        \A k \in Keys :
            Started(k) =>
                /\ finArg[k] = container[k]
                /\ finArg[k] = cell[k].value
                /\ finArg[k] \in {Produced(k, 1), Literal(k)}

\* a finalizer passed to bind has been invoked with the value its key's
\* producer returned, and the no-op finalizer of a requirement with the
\* literal
C11_Witness ==
    /\ fz = "done"
    /\ \E k \in Keys :
          Resource(k).finalizer /\ Started(k) /\ finArg[k] = Produced(k, 1)
    /\ \E k \in Keys : Started(k) /\ finArg[k] = Literal(k)

NoDuplicates(seq) ==
    \A i \in DOMAIN seq, j \in DOMAIN seq : seq[i] = seq[j] => i = j

\* C12: only the first finalize call runs finalizers.  No finalizer is
\* invoked twice; a call made when the flag is set rejects with 'already
\* finalized' and changes nothing of the first call's run (its progress,
\* the finalizers invoked, their promises), whether that run is in
\* progress, has completed or has failed; and once set the flag stays set
\* and the run is never begun again.
C12_OnlyFirstFinalizeRuns ==
    /\ [](/\ NoDuplicates(called)
          /\ later.n > 0 =>
                finalized /\ later.error.message = "already finalized")
    /\ [][(SameCall /\ later' # later) =>
            /\ finalized
            /\ later'.error.message = "already finalized"
            /\ UNCHANGED <<finalized, fz, handler, levels, level, fin,
                           finCount, called, finArg>>]_vars
    /\ [][(SameCall /\ finalized) =>
            /\ finalized'
            /\ level' >= level
            /\ levels' = levels
            /\ IsPrefix(called, called')]_vars

\* a second finalize call has been rejected while the first call's
\* finalizers were running
C12_Witness ==
    /\ later.n > 0
    /\ fz = "running"
    /\ \E k \in Keys : fin[k] = "running"

\* C13: with a handler that awaits the batch and swallows its rejection,
\* a finalizer's failure does not fail finalize, and the run that has
\* started goes on to its end: finalize succeeds with the finalizer of
\* every key invoked, those of the levels after the failed one included.
C13_SwallowingHandlerGoesOn ==
    /\ []((handler = "swallow" /\ fz # "armed"
             /\ \E k \in Keys : fin[k] = "failed") =>
            /\ fz # "failed"
            /\ fz = "done" => \A k \in Keys : Started(k))
    /\ (handler = "swallow" /\ fz = "running") ~>
            (fz = "done" /\ \A k \in Keys : Started(k))

\* finalize has succeeded with the swallowing handler although the
\* finalizer of a dependent failed, and its dependency's finalizer, of a
\* later level, was invoked and completed
C13_Witness ==
    /\ handler = "swallow"
    /\ fz = "done"
    /\ \E a \in Keys, b \in Keys :
          Edge(a, b) /\ fin[a] = "failed" /\ Started(b) /\ fin[b] = "done"

\* C14: with the default handler, when finalize has failed because a
\* finalizer rejected, the finalizers of the later levels have been invoked
\* all the same: every key's finalizer has been invoked.
C14_DefaultHandlerGoesOn ==
    (handler = "default" /\ fz = "failed"
       /\ \E k \in DOMAIN fin : fin[k] = "failed") =>
        \A k \in Keys : Started(k)

C16_CallbackFailurePropagates ==
    (use.cb = "error" /\ use.st = "rejected") => use.error = CallbackError

\* the message of the error a producer failed with, before any wrapping
CauseMessage(e) ==
    IF e.cause = "own" THEN OwnError.message
    ELSE IF e.cause = "cyclic" THEN CyclicMessage(e.path)
    ELSE StackOverflow.message

\* e is the error that the producer of e.origin failed with, wrapped once
WrappedOnce(e) ==
    /\ e.root
    /\ e.origin \in Keys
    /\ e.message =
         "failed to resolve \"" \o e.origin \o "\" because: " \o CauseMessage(e)
    /\ cell[e.origin] = Rejected(e)

\* C17: the error of every failed producer, the error every dependent has
\* seen and the error resolve fails with is the error of the producer X
\* that failed first in its chain, wrapped exactly once: its message is
\* 'failed to resolve "X" because: c'; a dependent that lets the failure of
\* the promise it awaits propagate fails with that same error, which does
\* not name the dependent.
C17_WrappedOnceAtOrigin ==
    /\ [](/\ \A k \in Keys :
                cell[k].st = "rejected" => WrappedOnce(cell[k].error)
          /\ \A r \in DOMAIN observed : \A k \in Keys :
                observed[r][k].st = "rejected" =>
                    WrappedOnce(observed[r][k].error)
          /\ rs = "fail" => WrappedOnce(rejection))
    /\ [][\A k \in Keys :
            (SameCall /\ pc[k].st = "await" /\ k \in DOMAIN cell'
               /\ cell'[k].st = "rejected") =>
                 /\ cell'[k].error = cell[pc[k].on].error
                 /\ cell'[k].error.origin # k]_vars

\* key1's own failure has reached resolve's caller through key2 and key3
C17_Witness ==
    /\ rs = "fail"
    /\ "key3" \in Keys
    /\ rejection.message = "failed to resolve \"key1\" because: boom"
    /\ observed["key2"]["key1"].st = "rejected"
    /\ observed["key3"]["key2"].st = "rejected"
    /\ observed["top"]["key3"].st = "rejected"
    /\ rejection = cell["key3"].error

\* C18: once a producer has failed, resolve never succeeds: it returns
\* neither a container nor a finalize function (no finalizer is ever
\* invoked, use never calls its callback), it eventually fails, and a
\* failed resolve stays failed even though the container it was building
\* may hold values.
C18_AllOrNothing ==
    /\ [](ProducerFailed =>
            /\ rs # "ok"
            /\ ~finalized /\ fz = "armed" /\ called = <<>>
            /\ use.cb = "none" /\ use.st \in {"none", "resolving", "rejected"})
    /\ [](rs = "ok" => \A k \in Keys : cell[k].st = "fulfilled")
    /\ [][(SameCall /\ rs = "fail") => rs' = "fail"]_vars
    /\ ProducerFailed ~> (rs = "fail")

\* resolve has failed although the container under construction holds the
\* value of a producer that succeeded
C18_Witness ==
    /\ rs = "fail"
    /\ \E k \in Keys : k \in DOMAIN container /\ cell[k].st = "fulfilled"
    /\ ProducerFailed
    /\ fz = "armed"

\* C19: a producer's failure does not end buildContainer's loop, so that
\* once the loop is over every key's producer has been started, exactly
\* once; and after resolve has failed every producer still in flight goes
\* on and comes to its end.
C19_SiblingsNotCancelled ==
    /\ [](LoopOver => \A k \in Keys : invoked[k] = 1)
    /\ [][(rs = "loop" /\ ProducerFailed) => rs' \in {"loop", "await"}]_vars
    /\ [][\A k \in Keys :
            (rs = "fail" /\ k \in DOMAIN pc' /\ pc[k] # Done) =>
                (pc'[k] = Done => cell'[k].st \in {"fulfilled", "rejected"})]_vars
    /\ (rs = "fail") ~> (\A k \in Keys : pc[k] = Done)

\* after resolve has failed a producer that was suspended has been resumed
\* and is running, and another one has returned its value since
C19_Witness ==
    /\ rs = "fail"
    /\ \E k \in Keys : stack = <<k>> /\ pc[k] = Running /\ observed["top"][k].st = "unset"
    /\ \E k \in Keys : cell[k].st = "fulfilled" /\ k \notin DOMAIN container

\* the graph, the memoization cells and the one-shot flag of the call c
\* hold what that call itself has done, and nothing else: every node and
\* every edge of its graph is of a producer the call has started, a cell is
\* set only when the call has invoked its producer, which it does once and
\* for every key, the flag is set exactly when the call's own finalize
\* has been called, and that finalize invokes every finalizer once
CallOwnsItsState(c) ==
    /\ \A n \in Range(c.dag.nodes) : c.invoked[n] = 1
    /\ \A a \in Keys : \A b \in Range(DepsOf(c.dag, a)) :
          c.invoked[a] = 1 /\ c.invoked[b] = 1 /\ b \in Resource(a).reads
    /\ \A k \in Keys :
          /\ c.invoked[k] <= 1
          /\ c.cell[k].st # "unset" => c.invoked[k] = 1
    /\ c.rs \in {"await", "ok", "fail"} => \A k \in Keys : c.invoked[k] = 1
    /\ c.finalized <=> c.fz # "armed"
    /\ c.fz = "done" => NoDuplicates(c.called) /\ Range(c.called) = Keys

\* C20: when resolve has been called twice on one blueprint, the calls
\* interleaved in any way, each call's graph and cells hold only what that
\* call has done (each call runs every producer once for itself, an edge is
\* in a call's graph only if that call discovered it), and a finalize call
\* on one result sets only that result's flag: the other result's finalize
\* stays armed.
C20_CallsShareNothing ==
    /\ [](other # NoCall =>
            CallOwnsItsState(ThisCall) /\ CallOwnsItsState(other))
    /\ [][(other # NoCall /\ SameCall /\ finalized' # finalized) =>
            other' = other /\ ~finalized /\ fz = "armed"]_vars

\* both calls have succeeded, each having discovered the edge from service
\* to config for itself; one result has been finalized and the other
\* result's finalize is still armed
C20_Witness ==
    /\ other # NoCall
    /\ rs = "ok" /\ other.rs = "ok"
    /\ Edge("service", "config")
    /\ "config" \in Range(DepsOf(other.dag, "service"))
    /\ fz = "done" /\ called = <<"service", "config">>
    /\ other.fz = "armed" /\ ~other.finalized

\* path is a cycle of the graph d through from: it starts and ends with
\* from and each of its steps is an edge of d
GenuineCycle(d, from, path) ==
    /\ Len(path) >= 2
    /\ path[1] = from
    /\ path[Len(path)] = from
    /\ \A i \in 1 .. Len(path) - 1 : path[i + 1] \in Range(DepsOf(d, path[i]))

\* dag.addEdge('1', '2'); dag.addEdge('2', '3'); dag.addEdge('3', '4')
Chain ==
    addEdge(addEdge(addEdge(EmptyDAG, "1", "2").dag, "2", "3").dag, "3", "4").dag

\* C25: when addEdge(from, to) throws the cyclic dependency error, the path
\* in its message is a cycle of the graph: it starts and ends with from and
\* every consecutive pair is an edge of the graph; for the chain
\* 1 -> 2 -> 3 -> 4 closed by addEdge(4, 1) the message is exactly
\* 'cyclic dependency detected: 4 -> 1 -> 2 -> 3 -> 4'.
C25_ReportedPathIsCycle ==
    (last.op = "addEdge" /\ last.error.cause = "cyclic") =>
        /\ GenuineCycle(graph, last.from, last.error.path)
        /\ last.error.message = CyclicMessage(last.error.path)
        /\ (graph = addEdge(Chain, "4", "1").dag /\ last.from = "4") =>
              last.error.message =
                  "cyclic dependency detected: 4 -> 1 -> 2 -> 3 -> 4"

\* addEdge(4, 1) has just failed on the chain 1 -> 2 -> 3 -> 4
C25_Witness ==
    /\ last.op = "addEdge"
    /\ last.from = "4" /\ last.to = "1"
    /\ graph = addEdge(Chain, "4", "1").dag
    /\ last.error.path = <<"4", "1", "2", "3", "4">>

\* C26: after addEdge(from, to) has failed with the cyclic dependency
\* error, the rejected edge from -> to is not in the graph.
C26_RejectedEdgeNotLeft ==
    (last.op = "addEdge" /\ last.error.cause = "cyclic") =>
        last.to \notin Range(DepsOf(graph, last.from))

\* the graph d has no cycle
Acyclic(d) ==
    \A k \in Range(d.nodes) : ~PathWithin(d, k, k, Len(d.nodes))

\* the indices of the levels that hold key
LevelsOf(lv, key) == { i \in DOMAIN lv : key \in Range(lv[i]) }

\* dag.addEdge('a1', 'b'); dag.addEdge('a2', 'b'); dag.addEdge('b', 'c1');
\* dag.addEdge('b', 'c2')
TwoOverOneOverTwo ==
    addEdge(addEdge(addEdge(addEdge(EmptyDAG, "a1", "b").dag,
                            "a2", "b").dag, "b", "c1").dag, "b", "c2").dag

\* C27: on an acyclic graph dependenciesForEachDepth returns, and for each
\* edge from -> to every level holding from comes strictly before every
\* level holding to; for a1, a2 -> b -> c1, c2 the result is exactly
\* [[a1, a2], [b], [c1, c2]].
C27_DependentsInEarlierLevels ==
    (last.op = "levels" /\ Acyclic(graph)) =>
        /\ ~last.overflow
        /\ \A from \in Range(graph.nodes) :
              \A to \in Range(DepsOf(graph, from)) :
                 /\ LevelsOf(last.levels, from) # {}
                 /\ LevelsOf(last.levels, to) # {}
                 /\ \A i \in LevelsOf(last.levels, from) :
                       \A j \in LevelsOf(last.levels, to) : i < j
        /\ graph = TwoOverOneOverTwo =>
              last.levels = << <<"a1", "a2">>, <<"b">>, <<"c1", "c2">> >>

\* dependenciesForEachDepth has returned the three levels of
\* a1, a2 -> b -> c1, c2
C27_Witness ==
    /\ last.op = "levels"
    /\ graph = TwoOverOneOverTwo
    /\ last.levels = << <<"a1", "a2">>, <<"b">>, <<"c1", "c2">> >>

C29_AddNodeIdempotent ==
    [][last'.op = "addNode" =>
         IF last'.to \in Range(graph.nodes)
         THEN graph' = graph
         ELSE /\ graph'.nodes = Append(graph.nodes, last'.to)
              /\ graph'.deps[last'.to] = <<>>
              /\ \A k \in Range(graph.nodes) : graph'.deps[k] = graph.deps[k]]_vars

\* addNode has been called for a node that has a dependency, which it kept
C29_Witness ==
    /\ last.op = "addNode"
    /\ DepsOf(graph, last.to) # <<>>

\* the binding of key in a mapping
BindingOf(mapping, key) == mapping[IndexOf(mapping, key)]

\* C21: made = receiver.bind(key, produce, finalize) has the receiver's
\* keys and the key bound, with the new binding for that key and the
\* receiver's binding for every other key; the receiver's mapping, like
\* every other Design's, is what it was, so that a resolve of the receiver
\* is handed the same merged blueprint as before.
C21_BindLeavesReceiver ==
    [][last'.op = "bind" =>
         LET receiver == designs[last'.this]
             made == designs'[last'.made]
         IN  /\ \A i \in DOMAIN designs : designs'[i] = designs[i]
             /\ KeysOf(made) = KeysOf(receiver) \cup {last'.key}
             /\ Len(made) = Cardinality(KeysOf(made))
             /\ \A k \in KeysOf(made) :
                   BindingOf(made, k) =
                       IF k = last'.key THEN last'.resource
                       ELSE BindingOf(receiver, k)
             /\ \A req \in {<<>>, <<"x">>, <<"y">>} :
                   merge(designs'[last'.this], pure(req)) =
                       merge(receiver, pure(req))]_vars

\* bind has overwritten a binding of the receiver in the new Design, and
\* the receiver still has its own
C21_Witness ==
    /\ last.op = "bind"
    /\ last.key \in KeysOf(designs[last.this])
    /\ BindingOf(designs[last.this], last.key) # last.resource
    /\ BindingOf(designs[last.made], last.key) = last.resource

\* C22: made = A.merge(B) has the keys of A and the keys of B, with B's
\* binding for every key of B and A's binding for every other key; A's
\* mapping and B's, like every other Design's, are what they were.
C22_MergeRightBiased ==
    [][last'.op = "merge" =>
         LET a == designs[last'.this]
             b == designs[last'.that]
             made == designs'[last'.made]
         IN  /\ \A i \in DOMAIN designs : designs'[i] = designs[i]
             /\ KeysOf(made) = KeysOf(a) \cup KeysOf(b)
             /\ Len(made) = Cardinality(KeysOf(made))
             /\ \A k \in KeysOf(made) :
                   BindingOf(made, k) =
                       IF k \in KeysOf(b) THEN BindingOf(b, k)
                       ELSE BindingOf(a, k)]_vars

\* A and B bind a key differently and A.merge(B) has B's binding
C22_Witness ==
    /\ last.op = "merge"
    /\ \E k \in KeysOf(designs[last.this]) \cap KeysOf(designs[last.that]) :
          /\ BindingOf(designs[last.this], k) # BindingOf(designs[last.that], k)
          /\ BindingOf(designs[last.made], k) = BindingOf(designs[last.that], k)

\* C23: every requirement key of a resolve call is bound in the merged
\* blueprint as a literal with no dependencies and the no-op finalizer: its
\* node in the graph has the empty dependency set, the container of a
\* fulfilled resolve maps it to the literal given, and finalize starts no
\* cleanup for it (its finalizer's promise is never pending or rejected).
C23_RequirementsAreLiterals ==
    \A k \in Range(requirements) :
        /\ k \in Keys
        /\ Resource(k) = [key |-> k, kind |-> "pure", reads |-> {},
                          finalizer |-> FALSE]
        /\ DepsOf(dag, k) = <<>>
        /\ cell[k] \in {Unset, Fulfilled(Literal(k))}
        /\ rs = "ok" =>
              /\ k \in Range(dag.nodes)
              /\ container[k] = Literal(k)
        /\ k \in DOMAIN fin => fin[k] \in {"idle", "done"}
        /\ (k \in DOMAIN fin /\ fz = "done") => fin[k] = "done"

\* finalize has finished for a container with a requirement key that a
\* producer depends on, and a bound key's finalizer has done its work
C23_Witness ==
    /\ rs = "ok"
    /\ fz = "done"
    /\ \E k \in Range(requirements) :
          /\ container[k] = Literal(k)
          /\ fin[k] = "done"
          /\ \E by \in Keys : k \in Range(DepsOf(dag, by))
    /\ \E k \in Keys : Resource(k).finalizer /\ fin[k] = "done"

\* the literal passed as `base`
BaseValue == 1000

\* the keys whose value the producer of key has obtained by awaiting
AwaitedBy(key) == { k \in Keys : observed[key][k].st = "fulfilled" }

\* The number a value stands for when every producer returns 1 plus what
\* it has awaited (async injector => 1 + (await injector.dep1)) and every
\* literal is the base.
RECURSIVE NumberOf(_)
RECURSIVE SumOf(_, _)
SumOf(key, ks) ==
    IF ks = {} THEN 0
    ELSE LET k == CHOOSE x \in ks : TRUE
         IN  NumberOf(observed[key][k].value) + SumOf(key, ks \ {k})

NumberOf(v) ==
    IF v.src = "literal" THEN BaseValue
    ELSE IF v.src = "produced" THEN 1 + SumOf(v.key, AwaitedBy(v.key))
    ELSE 0

\* C24: when resolve has succeeded, every value a producer obtained by
\* awaiting injector.K is container[K]; so where key1 added 1 to the
\* literal base and key2 added 1 to key1, container.key2 is base + 2.
C24_AwaitedIsContained ==
    rs = "ok" =>
        /\ \A r \in Keys, k \in Keys :
              observed[r][k].st = "fulfilled" =>
                  observed[r][k].value = container[k]
        /\ \A k1 \in Keys, k2 \in Keys :
              (/\ AwaitedBy(k1) = Range(requirements)
               /\ Cardinality(Range(requirements)) = 1
               /\ AwaitedBy(k2) = {k1}) =>
                  /\ NumberOf(container[k1]) = BaseValue + 1
                  /\ NumberOf(container[k2]) = BaseValue + 2

\* resolve has succeeded on the chain key2 -> key1 -> base, each link
\* awaited
C24_Witness ==
    /\ rs = "ok"
    /\ requirements = <<"base">>
    /\ AwaitedBy("key1") = {"base"}
    /\ AwaitedBy("key2") = {"key1"}
    /\ NumberOf(container["key2"]) = 1002

\* a step is a bindResource(key, produce) exactly when it is a
\* bind(key, produce, v => v.finalize())
BindResourceIsBind ==
    [][\A key \in AllKeys, r \in Resolvables :
          BindResource(key, r) <=> Bind(key, r, TRUE)]_vars

\* the value's own finalize of a resource key has run at most once, not
\* before finalize is called, and on the value in the container
ResourceFinalizedAtMostOnce ==
    \A k \in Keys :
        Resource(k).finalizer =>
            /\ (rs = "ok" /\ ~finalized) => k \notin DOMAIN finCount
            /\ k \in DOMAIN finCount =>
                  /\ finCount[k] <= 1
                  /\ finCount[k] = 1 => finArg[k] = container[k]

\* C30 (as stated): bindResource(key, produce) is bind(key, produce,
\* v => v.finalize()); after resolve the value's own finalize has not run,
\* and when a finalize call has ended it has run exactly once.
C30_BindResourceFinalizesOnce ==
    /\ BindResourceIsBind
    /\ [](/\ ResourceFinalizedAtMostOnce
          /\ \A k \in Keys :
                (Resource(k).finalizer /\ fz \in {"done", "failed"}) =>
                    finCount[k] = 1)

\* C34 (as stated): every dependenciesForEachDepth call returns, whatever
\* addNode and addEdge calls came before it, failed ones included.
C34_LevelsTerminate ==
    last.op = "levels" =>
        /\ ~last.overflow
        /\ last.error = NoError

Max(S) == CHOOSE x \in S : \A y \in S : y <= x

\* the length of the longest dependency chain that starts at key
RECURSIVE Height(_, _)
Height(d, key) ==
    IF DepsOf(d, key) = <<>> THEN 0
    ELSE 1 + Max({ Height(d, x) : x \in Range(DepsOf(d, key)) })

\* C35: on an acyclic graph the levels of dependenciesForEachDepth hold
\* the nodes of the graph, each in exactly one level and once in it; the
\* level of a key, counted from the last one, is the length of its longest
\* dependency chain; the last level holds exactly the keys that have no
\* dependencies.
C35_LevelIsLongestChain ==
    (last.op = "levels" /\ Acyclic(graph)) =>
        LET lv == last.levels
        IN  /\ ~last.overflow
            /\ UNION { Range(lv[i]) : i \in DOMAIN lv } = Range(graph.nodes)
            /\ \A i \in DOMAIN lv : NoDuplicates(lv[i])
            /\ \A k \in Range(graph.nodes) :
                  LevelsOf(lv, k) = {Len(lv) - Height(graph, k)}
            /\ Range(lv[Len(lv)]) =
                  { k \in Range(graph.nodes) : DepsOf(graph, k) = <<>> }

\* the levels of the chain 1 -> 2 -> 3 -> 4 have been computed
C35_Witness ==
    /\ last.op = "levels"
    /\ graph = Chain
    /\ last.levels = << <<"1">>, <<"2">>, <<"3">>, <<"4">> >>
    /\ Height(graph, "1") = 3

\* C36 (as stated): the cycle check of every addEdge call returns, with a
\* cycle or without, whatever addNode and addEdge calls came before it,
\* failed ones included.
C36_CycleCheckTerminates ==
    last.op = "addEdge" => last.error.cause \in {"none", "cyclic"}

\* C31 (as stated): a read of a key that the merged blueprint does not
\* have never hands the producer a value: the read fails the producer
\* with a MissingDependency error that names the key.
C31_MissingDependencyFails ==
    /\ [](\A by \in DOMAIN holding : holding[by] \subseteq Keys)
    /\ [][\A key \in UNION Resolvables :
            ReadAbsent(key) =>
                /\ cell'[Top].st = "rejected"
                /\ cell'[Top].error.cause = "missing"
                /\ cell'[Top].error.path = <<key>>]_vars

\* C32: the accessor records before it starts anything.  A read of
\* injector.B by A's producer that returns B's promise leaves the edge
\* A -> B in the graph, whether it started B's producer or found it
\* memoized; a read whose addEdge throws starts no producer and hands out
\* no promise; a producer is started only by such a read or by the
\* top-level demand of buildContainer, which adds the key as a node and
\* changes no dependency set.
C32_EdgeBeforeStart ==
    [][SameCall =>
         /\ \A key \in AllKeys :
               Read(key) => key \in Range(DepsOf(dag', Top))
         /\ \A key \in AllKeys, c \in BOOLEAN :
               ReadThrows(key, c) =>
                   /\ invoked' = invoked
                   /\ holding'[Top] \subseteq holding[Top]
                   /\ \A k \in Keys \ {Top} : cell'[k] = cell[k]
         /\ \A key \in DOMAIN invoked \cap DOMAIN invoked' :
               invoked'[key] > invoked[key] =>
                   /\ key \in Range(dag'.nodes)
                   /\ IF stack = <<>>
                      THEN /\ rs = "loop"
                           /\ \A k \in Range(dag'.nodes) :
                                 DepsOf(dag', k) = DepsOf(dag, k)
                      ELSE key \in Range(DepsOf(dag', Top))]_vars

\* a producer was started by a dependent's read of its key before the loop
\* came to the key, and the dependent's edge is in the graph while the
\* producer is still in its first synchronous segment
C32_Witness ==
    \E a \in Keys, b \in Keys :
        /\ a # b
        /\ rs = "loop"
        /\ Edge(a, b)
        /\ invoked[b] = 1
        /\ cell[b].st = "unset"
        /\ stack # <<>>
        /\ Top = b
        /\ \E i \in loopIndex .. Len(underlying) : underlying[i].key = b

\* C33 (as stated): once resolve has returned, the levels finalize uses
\* are settled: nothing that happens afterwards, an injector read by a
\* value that kept its injector included, changes them.
C33_LevelsFixedAtBuild ==
    [][(SameCall /\ rs = "ok" /\ rs' = "ok" /\ ~finalized /\ ~finalized') =>
          dependenciesForEachDepth(dag') = dependenciesForEachDepth(dag)]_vars

\* C37: when resolve has failed, nothing is finalized, then or later: no
\* finalize call is made and no finalizer is invoked, those of the keys
\* whose producers succeeded included; and a use call that resolved so has
\* neither called its callback nor finalize.  A failed resolve stays
\* failed.
C37_FailedResolveFinalizesNothing ==
    /\ [](rs = "fail" =>
            /\ ~finalized
            /\ fz = "armed"
            /\ fin = <<>>
            /\ finCount = <<>>
            /\ called = <<>>
            /\ later.n = 0
            /\ use.st \in {"none", "resolving", "rejected"}
            /\ use.cb = NotUsed.cb
            /\ use.calls = 0
            /\ use.st = "rejected" => use.error = rejection)
    /\ [][(SameCall /\ rs = "fail") => rs' = "fail"]_vars

\* use has rejected with the failure of resolve while a key whose producer
\* succeeded has a finalizer of its own
C37_Witness ==
    /\ rs = "fail"
    /\ use.st = "rejected"
    /\ \E k \in Keys : cell[k].st = "fulfilled" /\ Resource(k).finalizer

\* the keys that the blueprint binds and the requirements give as well
Overridden == Range(BoundKeys(design)) \cap Range(requirements)

\* C38: a requirement whose key the blueprint binds takes the place of
\* that binding in the resolve call: the key resolves to the literal
\* without its bound producer ever running, dependents and the container
\* get the literal, and finalize starts no cleanup for the key although
\* the binding has a finalizer.
C38_RequirementOverridesBinding ==
    \A k \in Overridden :
        /\ BindingOf(design, k).kind = "bound"
        /\ Resource(k) = pure(<<k>>)[1]
        /\ pc[k] \in {Idle, Done}
        /\ k \notin Range(stack)
        /\ cell[k] \in {Unset, Fulfilled(Literal(k))}
        /\ \A r \in DOMAIN observed :
              observed[r][k] \in {Unset, Fulfilled(Literal(k))}
        /\ rs = "ok" => container[k] = Literal(k)
        /\ k \in DOMAIN fin => fin[k] \in {"idle", "done"}

\* finalize has finished for a call whose requirement overrode a binding
\* that has a finalizer, after a dependent awaited the key
C38_Witness ==
    /\ rs = "ok"
    /\ fz = "done"
    /\ \E k \in Overridden :
          /\ BindingOf(design, k).finalizer
          /\ container[k] = Literal(k)
          /\ finCount[k] = 1
          /\ \E r \in Keys : observed[r][k] = Fulfilled(Literal(k))

=============================================================================
